---- MODULE Spec2Model ----
(***************************************************************************)
(* Model of the browsercam camera page: the React state of CameraPage      *)
(* (src/src/app/camera/page.tsx), its effects and event handlers, and the  *)
(* camera helpers of src/src/lib/camera.ts, run against a host platform    *)
(* (getUserMedia, applyConstraints, play, timers, visibility and focus     *)
(* events) whose outcomes and scheduling are nondeterministic.             *)
(*                                                                         *)
(* A handler's synchronous part is one action: the state updates it makes  *)
(* are batched into one render, and the effects whose dependencies changed *)
(* are cleaned up and re-run as part of the same action (Commit).  Every   *)
(* awaited platform call is a suspension point: the continuation is kept   *)
(* in `tasks` (or, for a visibility pass, inside its effect closure) with  *)
(* the values its closure captured.                                        *)
(***************************************************************************)
EXTENDS Integers, Sequences, FiniteSets, Bags, TLC

\* ------------------------------------------------------------------ bounds
\* streams getUserMedia may hand out in one run
MaxStreams == 3
\* continuations in flight at once (tasks, focus timers and visibility passes)
MaxTasks == 2
\* user-initiated device selections, retries and switches in one run
MaxSelects == 2
\* setting changes, clears and aspect-ratio picks in one run
MaxChanges == 3
\* times the host hides the page or focuses the window in one run
MaxSignals == 2
\* tracks the host ends in one run
MaxEnds == 1
\* setting changes and aspect-ratio picks in one run with suspensions
MaxRecoveryChanges == 2

\* a null stream handle; stream handles are the positive track numbers
NoStream == 0
\* a null capabilities state: no dimension is a field of it
NullCaps == [null |-> TRUE]

\* ------------------------------------------------------- settings records
\* A CameraSettings object is a function whose domain is the set of defined
\* fields.  Numbers are integers: focusDistance in hundredths, aspect ratios
\* by name.
NumKeys == {"colorTemperature", "exposureCompensation", "exposureTime",
            "focusDistance", "frameRate", "height", "iso", "width", "zoom"}
StrKeys == {"exposureMode", "focusMode", "whiteBalanceMode", "aspectRatio"}
BoolKeys == {"torch"}

EmptySettings == [k \in {} |-> 0]

Has(s, k) == k \in DOMAIN s

\* { ...s, [k]: v }
With(s, k, v) == [x \in DOMAIN s \cup {k} |-> IF x = k THEN v ELSE s[x]]

\* delete s[k]
Without(s, k) == [x \in DOMAIN s \ {k} |-> s[x]]

\* JavaScript truthiness of s[k]: undefined, 0, "" and false are falsy
Truthy(s, k) ==
    /\ Has(s, k)
    /\ (k \in NumKeys => s[k] # 0)
    /\ (k \in StrKeys => s[k] # "")
    /\ (k \in BoolKeys => s[k] = TRUE)

\* array.includes(x) on an optional array field of the capabilities
Includes(caps, k, x) ==
    /\ Has(caps, k)
    /\ \E i \in 1..Len(caps[k]) : caps[k][i] = x

\* ------------------------------------------------- capability descriptors
\* A raw capability object is a function from the reported dimensions to a
\* range (a function over a subset of {"min","max","step"}), a mode list or
\* a flag.  RawCaps is what track.getCapabilities() reports per device.
Range(lo, hi, st) == [min |-> lo, max |-> hi, step |-> st]
MinMax(lo, hi) == [min |-> lo, max |-> hi]

RawCaps(deviceId) ==
    CASE deviceId = "A" ->
           [frameRate |-> MinMax(15, 30),
            exposureMode |-> <<"continuous", "manual">>,
            focusMode |-> <<"continuous", "manual">>,
            focusDistance |-> Range(0, 100, 1),
            iso |-> Range(100, 800, 100),
            exposureTime |-> Range(1, 100, 1),
            colorTemperature |-> Range(2500, 7500, 100),
            exposureCompensation |-> Range(-2, 2, 1),
            zoom |-> Range(1, 4, 1),
            torch |-> TRUE,
            width |-> MinMax(640, 1920),
            height |-> MinMax(480, 1080),
            deviceId |-> "A",
            groupId |-> "g1"]
      [] deviceId = "B" ->
           [frameRate |-> [max |-> 60],
            exposureMode |-> <<"manual">>,
            focusMode |-> <<"manual", "single-shot">>,
            focusDistance |-> Range(0, 100, 1),
            iso |-> Range(0, 800, 100),
            exposureTime |-> Range(0, 100, 1),
            zoom |-> [max |-> 4],
            torch |-> FALSE,
            width |-> MinMax(640, 1280),
            height |-> [min |-> 480],
            deviceId |-> "B",
            groupId |-> "g1"]
      [] deviceId = "C" ->
           [frameRate |-> MinMax(0, 30),
            exposureMode |-> <<"continuous">>,
            focusMode |-> <<"continuous">>,
            focusDistance |-> Range(0, 100, 1),
            iso |-> Range(100, 800, 100),
            exposureTime |-> Range(1, 100, 1),
            width |-> MinMax(640, 1920),
            height |-> MinMax(480, 1080),
            deviceId |-> "C",
            groupId |-> "g2"]
      [] deviceId = "F" ->
           [frameRate |-> MinMax(15, 30),
            focusMode |-> <<"continuous", "manual">>,
            focusDistance |-> Range(0, 100, 1),
            deviceId |-> "F"]
      [] OTHER ->
           [iso |-> Range(100, 800, 100),
            exposureTime |-> Range(1, 100, 1),
            focusDistance |-> Range(0, 100, 1),
            deviceId |-> deviceId]

\* dimensions getCameraCapabilities keeps only with both bounds defined
BoundedKeys == {"frameRate", "aspectRatio", "height", "width"}
\* dimensions it passes through when the raw field is truthy
PassKeys == {"exposureMode", "focusMode", "iso", "whiteBalanceMode", "zoom",
             "colorTemperature", "deviceId", "exposureCompensation",
             "exposureTime", "facingMode", "focusDistance", "groupId",
             "resizeMode"}

\* the descriptor getCameraCapabilities builds from a raw capability object
NormalizeCapabilities(raw) ==
    LET kept == {k \in DOMAIN raw :
                    \/ /\ k \in BoundedKeys
                       /\ "min" \in DOMAIN raw[k]
                       /\ "max" \in DOMAIN raw[k]
                    \/ k \in PassKeys
                    \/ k = "torch"}
    IN [k \in kept |-> IF k \in BoundedKeys
                         THEN MinMax(raw[k].min, raw[k].max)
                         ELSE raw[k]]

getCameraCapabilities(deviceId) == NormalizeCapabilities(RawCaps(deviceId))

\* default settings that start from the lowest frame rate
DefaultSettingsLowRate(caps, selectedAspectRatio) ==
    LET s0 == IF Has(caps, "frameRate")
                THEN With(EmptySettings, "frameRate", caps.frameRate.min)
                ELSE EmptySettings
        s1 == With(s0, "aspectRatio", selectedAspectRatio)
    IN IF Includes(caps, "focusMode", "continuous")
         THEN With(s1, "focusMode", "continuous")
         ELSE s1

\* initCamera's default settings for a descriptor and the selected ratio
DefaultSettings(caps, selectedAspectRatio) ==
    LET s0 == IF Has(caps, "frameRate")
                THEN With(EmptySettings, "frameRate", caps.frameRate.max)
                ELSE EmptySettings
        s1 == With(s0, "aspectRatio", selectedAspectRatio)
        s2 == IF Includes(caps, "exposureMode", "continuous")
                THEN With(s1, "exposureMode", "continuous")
                ELSE IF Has(caps, "exposureMode") /\ Len(caps.exposureMode) > 0
                       THEN With(s1, "exposureMode", caps.exposureMode[1])
                       ELSE s1
    IN IF Includes(caps, "focusMode", "continuous")
         THEN With(s2, "focusMode", "continuous")
         ELSE IF Has(caps, "focusMode") /\ Len(caps.focusMode) > 0
                THEN With(s2, "focusMode", caps.focusMode[1])
                ELSE s2

\* ---------------------------------------------------- constraint builders
\* fields of s in K that pass the builder's test: `!== undefined` for the
\* keys of D, truthiness for the others
Pick(s, D, T) ==
    [k \in {x \in DOMAIN s : x \in D \/ (x \in T /\ Truthy(s, x))} |-> s[k]]

\* the video constraints startCamera passes to getUserMedia
StartBasic(s, deviceId) ==
    [deviceId |-> deviceId,
     video |-> Pick(s, {}, {"frameRate", "width", "height"})]

\* the advancedConstraints startCamera applies to the acquired track
StartAdvanced(s) ==
    Pick(s, {"aspectRatio", "colorTemperature", "exposureCompensation",
             "exposureTime", "focusDistance", "iso", "torch", "zoom"},
            {"exposureMode", "focusMode", "whiteBalanceMode"})

\* applySettingsToStream's two constraint objects
ApplyMediaTrack(s) ==
    Pick(s, {"aspectRatio", "frameRate", "height", "width"}, {})

ApplyImageCapture(s) ==
    Pick(s, {"zoom", "colorTemperature", "exposureCompensation",
             "exposureTime", "focusDistance", "iso", "torch"},
            {"exposureMode", "focusMode", "whiteBalanceMode"})

\* ------------------------------------------------------ settings updates
\* a handleSettingChange that only merges the new value
NewSettingsUnforced(s, caps, key, value) == With(s, key, value)

\* handleSettingChange's newSettings
NewSettings(s, caps, key, value) ==
    LET n0 == With(s, key, value)
        n1 == IF key \in {"exposureTime", "iso"}
                   /\ Includes(caps, "exposureMode", "manual")
                THEN With(n0, "exposureMode", "manual")
                ELSE n0
    IN IF key = "focusDistance" /\ Includes(caps, "focusMode", "manual")
         THEN With(n1, "focusMode", "manual")
         ELSE n1

\* the Auto buttons of the ISO and shutter panels: delete the field and,
\* when the sibling is falsy, command continuous exposure
ClearedExposure(s, key, sibling) ==
    LET n == Without(s, key)
    IN IF ~Truthy(n, sibling) THEN With(n, "exposureMode", "continuous") ELSE n

\* the Auto buttons of the white-balance and EV panels
ClearedPlain(s, key) == Without(s, key)

\* ----------------------------------------------------------- resolutions
AspectRatios == {"4:3", "1:1", "16:9", "21:9"}
RatioW(r) == CASE r = "4:3" -> 4 [] r = "1:1" -> 1 [] r = "16:9" -> 16 [] OTHER -> 21
RatioH(r) == CASE r = "4:3" -> 3 [] r = "1:1" -> 1 [] OTHER -> 9

\* Math.round(width / ratio)
RoundedHeight(width, r) == (2 * width * RatioH(r) + RatioW(r)) \div (2 * RatioW(r))

\* getAvailableResolutions(capabilities, ratio).length > 0
HasResolution(caps, r) ==
    /\ Has(caps, "width")
    /\ Has(caps, "height")
    /\ \E i \in 0..((caps.width.max - caps.width.min) \div 160) :
          LET w == caps.width.min + 160 * i
          IN /\ RoundedHeight(w, r) >= caps.height.min
             /\ RoundedHeight(w, r) <= caps.height.max

\* ------------------------------------------------------------------ state
VARIABLES
    \* React state of CameraPage
    stream, cameras, selectedCamera, capabilities, settings, isLoading,
    error, errorDetails, selectedAspectRatio,
    \* the component has been unmounted
    unmounted,
    \* the initCamera effect now in place: whether it has a cleanup, and the
    \* `stream` its cleanup closure captured
    initEffect,
    \* the visibility effect now in place: the stream, settings and camera its
    \* closure captured, its isHandlingVisibilityChange flag, its pending
    \* focus timers and its running handler passes
    vis,
    \* replaced visibility effects that still have timers or passes
    staleVis,
    \* suspended continuations: loadCameras, initCamera instances, setting
    \* applications, aspect-ratio handlers, the retry timer
    tasks,
    \* platform: one entry per stream getUserMedia has handed out
    tracks,
    \* platform: document.hidden
    docHidden,
    \* history: the last operation, the arguments of the last startCamera
    \* call, the session as it was when the page was last hidden, and the
    \* numbers of selections, setting changes, host signals and host-ended
    \* tracks so far
    last, request, suspended, used

reactVars == <<stream, cameras, selectedCamera, capabilities, settings,
               isLoading, error, errorDetails, selectedAspectRatio>>
vars == <<stream, cameras, selectedCamera, capabilities, settings, isLoading,
          error, errorDetails, selectedAspectRatio, unmounted, initEffect,
          vis, staleVis, tasks, tracks, docHidden, last, request, suspended,
          used>>

\* the React state as one record
Cur ==
    [stream |-> stream, cameras |-> cameras, selectedCamera |-> selectedCamera,
     capabilities |-> capabilities, settings |-> settings,
     isLoading |-> isLoading, error |-> error, errorDetails |-> errorDetails,
     selectedAspectRatio |-> selectedAspectRatio]

\* ------------------------------------------------------------ bag helpers
BagAdd(B, e) == B (+) SetToBag({e})
BagDel(B, e) == B (-) SetToBag({e})
BagSwap(B, e, f) == BagAdd(BagDel(B, e), f)

\* ---------------------------------------------------------------- records
Task(kind, pc, cam, s, old, strm, mounted, ratio) ==
    [kind |-> kind, pc |-> pc, cam |-> cam, s |-> s, old |-> old,
     strm |-> strm, mounted |-> mounted, ratio |-> ratio]

Pass(branch, pc, strm) == [branch |-> branch, pc |-> pc, strm |-> strm]

\* the closure of a freshly run visibility effect
Closure(st, s, cam) ==
    [stream |-> st, s |-> s, cam |-> cam, flag |-> FALSE, timers |-> 0,
     passes |-> EmptyBag]

\* timers and passes a closure still has
Load(c) == c.timers + BagCardinality(c.passes)

RECURSIVE SumLoad(_, _)
SumLoad(B, S) ==
    IF S = {} THEN 0
    ELSE LET c == CHOOSE x \in S : TRUE
         IN CopiesIn(c, B) * Load(c) + SumLoad(B, S \ {c})

\* continuations in flight
InFlight == BagCardinality(tasks) + Load(vis) + SumLoad(staleVis, BagToSet(staleVis))

\* a stale closure is kept only while it has timers or passes
KeepStale(B, c) == IF Load(c) > 0 THEN BagAdd(B, c) ELSE B

\* ---------------------------------------------------------------- platform
\* stopCamera(stream): track.stop() on every track of the stream
stopCamera(tr, st) ==
    IF st = NoStream THEN tr
    ELSE [tr EXCEPT ![st].readyState = "ended"]

\* streams with a live track
LiveStreams == {i \in 1..Len(tracks) : tracks[i].readyState = "live"}

\* the stream getUserMedia hands out next, and the tracks once it has
NewStream == Len(tracks) + 1
Acquired(tr, deviceId) ==
    Append(tr, [dev |-> deviceId, readyState |-> "live", enabled |-> TRUE])

\* names a rejected platform call can carry
ErrorNames == {"NotReadableError", "NotAllowedError", "NotFoundError",
               "OverconstrainedError", "Error"}

\* a categorization that knows no error name
ErrorForUnknown(name) == <<"Failed to start camera", "message">>

\* initCamera's error message and details for an error name
ErrorFor(name) ==
    CASE name = "NotReadableError" ->
           <<"Camera is not accessible",
             "The camera might be in use by another application or not properly connected.">>
      [] name = "NotAllowedError" ->
           <<"Camera access denied",
             "Please grant camera permissions to use this feature.">>
      [] name = "NotFoundError" ->
           <<"No camera found", "Please connect a camera and try again.">>
      [] name = "OverconstrainedError" ->
           <<"Camera settings not supported",
             "The requested camera settings are not available on this device.">>
      [] OTHER -> <<"Failed to start camera", "message">>

\* ------------------------------------------------------------------ render
\* which of the three screens CameraPage renders
LoadingUI == ~unmounted /\ isLoading
ErrorUI == ~unmounted /\ ~isLoading /\ error # ""
MainUI == ~unmounted /\ ~isLoading /\ error = ""

\* videoRef.current is set exactly while the main screen is rendered
VideoMounted == MainUI

\* the user can press a control only while the page is shown
Interactive == ~docHidden

\* ------------------------------------------------------------------ commit
\* the initCamera instance of the effect now in place, if it is in flight
CurrentInit(tk) == {t \in BagToSet(tk) : t.kind = "init" /\ t.mounted}

\* cleanup of the initCamera effect: mounted = false, clearTimeout (an
\* instance still waiting for its 100 ms timer never resumes)
InitCleanup(tk) ==
    IF CurrentInit(tk) = {} THEN tk
    ELSE LET t == CHOOSE x \in CurrentInit(tk) : TRUE
         IN IF t.pc = "timer" THEN BagDel(tk, t)
            ELSE BagSwap(tk, t, [t EXCEPT !.mounted = FALSE])

\* One render after a batch of state updates, with the effects it runs.
\* ns is the React state the updates ask for, tk and tr the tasks and tracks
\* the handler leaves, v and sv the visibility closures it leaves.  The
\* initCamera effect depends on [selectedCamera]: its cleanup stops the
\* stream the old closure captured and the new run sets isLoading and clears
\* error.  The visibility effect depends on [stream, settings,
\* selectedCamera]: its cleanup resets the old closure's flag.  Updates to
\* an unmounted component are dropped.
Commit(ns, tk, tr, v, sv) ==
    LET eff == IF unmounted THEN Cur ELSE ns
        camChanged == eff.selectedCamera # selectedCamera
        starts == camChanged /\ eff.selectedCamera # ""
        tk1 == IF camChanged THEN InitCleanup(tk) ELSE tk
        tr1 == IF camChanged /\ initEffect.on
                 THEN stopCamera(tr, initEffect.stream) ELSE tr
        tk2 == IF starts
                 THEN BagAdd(tk1, Task("init", "timer", eff.selectedCamera,
                                       EmptySettings, NoStream, NoStream, TRUE,
                                       eff.selectedAspectRatio))
                 ELSE tk1
        depsChanged == \/ eff.stream # stream
                       \/ eff.settings # settings
                       \/ eff.selectedCamera # selectedCamera
    IN /\ stream' = eff.stream
       /\ cameras' = eff.cameras
       /\ selectedCamera' = eff.selectedCamera
       /\ capabilities' = eff.capabilities
       /\ settings' = eff.settings
       /\ isLoading' = IF starts THEN TRUE ELSE eff.isLoading
       /\ error' = IF starts THEN "" ELSE eff.error
       /\ errorDetails' = eff.errorDetails
       /\ selectedAspectRatio' = eff.selectedAspectRatio
       /\ initEffect' = IF camChanged
                          THEN [on |-> starts, stream |-> eff.stream]
                          ELSE initEffect
       /\ tasks' = tk2
       /\ tracks' = tr1
       /\ IF depsChanged
            THEN /\ vis' = Closure(eff.stream, eff.settings, eff.selectedCamera)
                 /\ staleVis' = KeepStale(sv, [v EXCEPT !.flag = FALSE])
            ELSE /\ vis' = v
                 /\ staleVis' = sv

\* History.  `request` holds the arguments of the startCamera call the last
\* step made, if it made one; `suspended` holds the session as it was when
\* the page was hidden, until the step after the page is shown again.
NoRequest == [s |-> EmptySettings, cam |-> ""]
NoSuspended == [live |-> FALSE, s |-> EmptySettings, cam |-> ""]
Remembered == IF docHidden THEN suspended ELSE NoSuspended

\* the history variables of a step that is no selection, setting change,
\* startCamera call or host signal
Note(op, arg) ==
    /\ last' = [op |-> op, arg |-> arg]
    /\ request' = NoRequest
    /\ suspended' = Remembered
    /\ UNCHANGED <<docHidden, used, unmounted>>

\* the same for a step that calls startCamera(s, deviceId)
NoteStart(op, arg, s, deviceId) ==
    /\ last' = [op |-> op, arg |-> arg]
    /\ request' = [s |-> s, cam |-> deviceId]
    /\ suspended' = Remembered
    /\ UNCHANGED <<docHidden, used, unmounted>>

\* ------------------------------------------------------------------- mount
\* lists enumerateDevices can answer with
CameraLists == {<<>>, <<"A">>, <<"A", "B">>, <<"B", "A">>, <<"C">>, <<"D", "A">>,
                <<"F">>}

Init ==
    /\ stream = NoStream
    /\ cameras = <<>>
    /\ selectedCamera = ""
    /\ capabilities = NullCaps
    /\ settings = EmptySettings
    /\ isLoading = TRUE
    /\ error = ""
    /\ errorDetails = ""
    /\ selectedAspectRatio = "16:9"
    /\ unmounted = FALSE
    /\ initEffect = [on |-> FALSE, stream |-> NoStream]
    /\ vis = Closure(NoStream, EmptySettings, "")
    /\ staleVis = EmptyBag
    /\ tasks = SetToBag({Task("load", "list", "", EmptySettings, NoStream,
                              NoStream, FALSE, "")})
    /\ tracks = <<>>
    /\ docHidden = FALSE
    /\ last = [op |-> "mount", arg |-> ""]
    /\ request = NoRequest
    /\ suspended = NoSuspended
    /\ used = [selects |-> 0, changes |-> 0, signals |-> 0, ends |-> 0]

\* loadCameras once listCameras has resolved (it catches every error and
\* answers [] then): the list is stored, its first device selected, and the
\* loading flag cleared
LoadCameras(t, list) ==
    /\ t.kind = "load"
    /\ Commit([Cur EXCEPT !.cameras = list,
                          !.selectedCamera =
                              IF Len(list) > 0 THEN list[1] ELSE selectedCamera,
                          !.isLoading = FALSE],
              BagDel(tasks, t), tracks, vis, staleVis)
    /\ Note("loadCameras", "")

\* ------------------------------------------------------------- initCamera
\* the 100 ms timer fires; getCameraCapabilities calls getUserMedia
InitTimer(t) ==
    /\ t.kind = "init" /\ t.pc = "timer"
    /\ Commit(Cur, BagSwap(tasks, t, [t EXCEPT !.pc = "probe"]), tracks, vis,
              staleVis)
    /\ Note("initTimer", t.cam)

\* a probe continuation that keeps the fields set before and recomputes the
\* two modes only
InitProbeOkCarries(t) ==
    /\ t.kind = "init" /\ t.pc = "probe"
    /\ IF t.mounted
         THEN LET caps == getCameraCapabilities(t.cam)
                  defaults == DefaultSettings(caps, t.ratio)
                  kept == DOMAIN settings \ {"exposureMode", "focusMode"}
                  carried == [k \in kept \cup DOMAIN defaults |->
                                IF k \in kept THEN settings[k] ELSE defaults[k]]
              IN /\ Commit([Cur EXCEPT !.capabilities = caps,
                                       !.settings = carried],
                           BagSwap(tasks, t, [t EXCEPT !.pc = "gum",
                                                       !.s = carried]),
                           tracks, vis, staleVis)
                 /\ NoteStart("initProbeOk", t.cam, carried, t.cam)
         ELSE /\ Commit(Cur, BagDel(tasks, t), tracks, vis, staleVis)
              /\ Note("initAbandoned", t.cam)

\* the probe resolves: its track is read and stopped at once; a live
\* instance stores the descriptor and the default settings and calls
\* startCamera, an abandoned one returns
InitProbeOk(t) ==
    /\ t.kind = "init" /\ t.pc = "probe"
    /\ IF t.mounted
         THEN LET caps == getCameraCapabilities(t.cam)
                  defaultSettings == DefaultSettings(caps, t.ratio)
              IN /\ Commit([Cur EXCEPT !.capabilities = caps,
                                       !.settings = defaultSettings],
                           BagSwap(tasks, t, [t EXCEPT !.pc = "gum",
                                                       !.s = defaultSettings]),
                           tracks, vis, staleVis)
                 /\ NoteStart("initProbeOk", t.cam, defaultSettings, t.cam)
         ELSE /\ Commit(Cur, BagDel(tasks, t), tracks, vis, staleVis)
              /\ Note("initAbandoned", t.cam)

\* initCamera's catch and finally for an error name: a live instance shows
\* the categorized error and clears the loading flag, an abandoned one
\* does nothing
InitFailed(t, name) ==
    /\ Commit(IF t.mounted
                THEN [Cur EXCEPT !.error = ErrorFor(name)[1],
                                 !.errorDetails = ErrorFor(name)[2],
                                 !.isLoading = FALSE]
                ELSE Cur,
              BagDel(tasks, t), tracks, vis, staleVis)
    /\ Note("initFailed", name)

InitProbeFail(t, name) ==
    /\ t.kind = "init" /\ t.pc = "probe"
    /\ InitFailed(t, name)

\* startCamera has returned the stream t.strm to the initCamera instance
\* suspended as t0 (tr: the tracks by then): an abandoned instance stops it;
\* a live one stores it and, when the video element is rendered, awaits
\* play(), else clears the loading flag
InitStarted(t0, t, tr) ==
    IF ~t.mounted
      THEN /\ Commit(Cur, BagDel(tasks, t0), stopCamera(tr, t.strm), vis, staleVis)
           /\ Note("initAbandoned", t.cam)
      ELSE IF VideoMounted
             THEN /\ Commit([Cur EXCEPT !.stream = t.strm],
                            BagSwap(tasks, t0, [t EXCEPT !.pc = "play"]),
                            tr, vis, staleVis)
                  /\ Note("initStream", t.cam)
             ELSE /\ Commit([Cur EXCEPT !.stream = t.strm, !.isLoading = FALSE],
                            BagDel(tasks, t0), tr, vis, staleVis)
                  /\ Note("initStream", t.cam)

\* startCamera's getUserMedia resolves with a new stream; its track is then
\* given the advanced constraints, when there are any
InitGumOk(t) ==
    /\ t.kind = "init" /\ t.pc = "gum"
    /\ NewStream <= MaxStreams
    /\ IF DOMAIN StartAdvanced(t.s) # {}
         THEN /\ Commit(Cur, BagSwap(tasks, t, [t EXCEPT !.pc = "constrain",
                                                        !.strm = NewStream]),
                        Acquired(tracks, t.cam), vis, staleVis)
              /\ Note("gumOk", t.cam)
         ELSE InitStarted(t, [t EXCEPT !.strm = NewStream],
                          Acquired(tracks, t.cam))

InitGumFail(t, name) ==
    /\ t.kind = "init" /\ t.pc = "gum"
    /\ InitFailed(t, name)

\* track.applyConstraints resolves: startCamera returns the stream
InitConstrainOk(t) ==
    /\ t.kind = "init" /\ t.pc = "constrain"
    /\ InitStarted(t, t, tracks)

\* a startCamera that swallows the rejection and returns the stream
InitConstrainFailKeeps(t, name) ==
    /\ t.kind = "init" /\ t.pc = "constrain"
    /\ Commit(IF t.mounted
                THEN [Cur EXCEPT !.stream = t.strm, !.isLoading = FALSE]
                ELSE Cur,
              BagDel(tasks, t), tracks, vis, staleVis)
    /\ Note("initFailed", name)

\* track.applyConstraints rejects: startCamera rethrows and the stream it
\* acquired is not stopped
InitConstrainFail(t, name) ==
    /\ t.kind = "init" /\ t.pc = "constrain"
    /\ InitFailed(t, name)

\* play() settles either way (a rejection only schedules a replay): finally
InitPlaySettled(t, ok) ==
    /\ t.kind = "init" /\ t.pc = "play"
    /\ Commit(IF t.mounted THEN [Cur EXCEPT !.isLoading = FALSE] ELSE Cur,
              BagDel(tasks, t), tracks, vis, staleVis)
    /\ Note("initPlay", IF ok THEN "ok" ELSE "rejected")

\* ------------------------------------------------------- device selection
\* the history variables of a user's selection, retry or switch
NoteSelect(op, arg) ==
    /\ last' = [op |-> op, arg |-> arg]
    /\ used' = [used EXCEPT !.selects = @ + 1]
    /\ request' = NoRequest
    /\ suspended' = Remembered
    /\ UNCHANGED <<docHidden, unmounted>>

\* lens picker: stop the current stream, then select the device
handleCameraChange(deviceId) ==
    /\ MainUI
    /\ Interactive
    /\ used.selects < MaxSelects
    /\ \E i \in 1..Len(cameras) : cameras[i] = deviceId
    /\ deviceId # selectedCamera
    /\ Commit([Cur EXCEPT !.stream = NoStream, !.selectedCamera = deviceId],
              tasks, stopCamera(tracks, stream), vis, staleVis)
    /\ NoteSelect("handleCameraChange", deviceId)

\* error screen, Retry: clear the error, stop the stream, reset capabilities
\* and settings, clear the selection and restore it from a 100 ms timer
handleRetry ==
    /\ ErrorUI
    /\ Interactive
    /\ used.selects < MaxSelects
    /\ Commit([Cur EXCEPT !.error = "", !.errorDetails = "",
                          !.isLoading = TRUE, !.stream = NoStream,
                          !.capabilities = NullCaps,
                          !.settings = EmptySettings, !.selectedCamera = ""],
              BagAdd(tasks, Task("retry", "timer", selectedCamera,
                                 EmptySettings, NoStream, NoStream, FALSE, "")),
              stopCamera(tracks, stream), vis, staleVis)
    /\ NoteSelect("handleRetry", selectedCamera)

\* the retry timer fires: setSelectedCamera(currentCamera)
RetryTimer(t) ==
    /\ t.kind = "retry"
    /\ Commit([Cur EXCEPT !.selectedCamera = t.cam], BagDel(tasks, t), tracks,
              vis, staleVis)
    /\ Note("retryTimer", t.cam)

\* cameras.findIndex(c => c.deviceId === selectedCamera), counted from 0
FindIndex(list, deviceId) ==
    IF \E i \in 1..Len(list) : list[i] = deviceId
      THEN (CHOOSE i \in 1..Len(list) :
               list[i] = deviceId /\ \A j \in 1..(i - 1) : list[j] # deviceId) - 1
      ELSE -1

\* a switch action that always goes back to the first device
NextCameraFirst(list, deviceId) == list[1]

\* the device the switch action selects
NextCamera(list, deviceId) == list[((FindIndex(list, deviceId) + 1) % Len(list)) + 1]

\* error screen, Try next lens: clear the error and select the next device
handleSwitchCamera ==
    /\ ErrorUI
    /\ Interactive
    /\ used.selects < MaxSelects
    /\ Len(cameras) > 1
    /\ Commit([Cur EXCEPT !.error = "", !.errorDetails = "",
                          !.selectedCamera = NextCamera(cameras, selectedCamera)],
              tasks, tracks, vis, staleVis)
    /\ NoteSelect("handleSwitchCamera", NextCamera(cameras, selectedCamera))

\* the component unmounts: every effect is cleaned up
Unmount ==
    /\ ~unmounted
    /\ unmounted' = TRUE
    /\ UNCHANGED reactVars
    /\ initEffect' = [on |-> FALSE, stream |-> NoStream]
    /\ tasks' = InitCleanup(tasks)
    /\ tracks' = IF initEffect.on THEN stopCamera(tracks, initEffect.stream)
                 ELSE tracks
    /\ vis' = Closure(NoStream, EmptySettings, "")
    /\ staleVis' = KeepStale(staleVis, [vis EXCEPT !.flag = FALSE])
    /\ last' = [op |-> "unmount", arg |-> ""]
    /\ request' = NoRequest
    /\ suspended' = Remembered
    /\ UNCHANGED <<docHidden, used>>

\* -------------------------------------------------------- setting changes
\* the history variables of a user's setting change, clear or ratio pick
NoteChange(op, arg) ==
    /\ last' = [op |-> op, arg |-> arg]
    /\ used' = [used EXCEPT !.changes = @ + 1]
    /\ request' = NoRequest
    /\ suspended' = Remembered
    /\ UNCHANGED <<docHidden, unmounted>>

\* settings become n and, if a stream is held, n is applied to it in place;
\* the application is awaited and a rejection only logged
ApplyInPlace(n) ==
    Commit([Cur EXCEPT !.settings = n],
           IF stream # NoStream
             THEN BagAdd(tasks, Task("apply", "apply", "", n, stream, NoStream,
                                     FALSE, ""))
             ELSE tasks,
           tracks, vis, staleVis)

handleSettingChange(key, value) ==
    ApplyInPlace(NewSettings(settings, capabilities, key, value))

\* a slider of the control panel, shown when the device reports the dimension
SliderChange(key, value) ==
    /\ MainUI
    /\ Interactive
    /\ used.changes < MaxChanges /\ InFlight < MaxTasks
    /\ Has(capabilities, key)
    /\ value >= capabilities[key].min /\ value <= capabilities[key].max
    /\ handleSettingChange(key, value)
    /\ NoteChange("handleSettingChange", key)

\* the torch button, shown when capabilities.torch is true
TorchToggle ==
    /\ MainUI
    /\ Interactive
    /\ used.changes < MaxChanges /\ InFlight < MaxTasks
    /\ Truthy(capabilities, "torch")
    /\ handleSettingChange("torch", ~Truthy(settings, "torch"))
    /\ NoteChange("handleSettingChange", "torch")

\* the Auto button of the focus panel, disabled while focusMode is continuous
FocusAuto ==
    /\ MainUI
    /\ Interactive
    /\ used.changes < MaxChanges /\ InFlight < MaxTasks
    /\ Has(capabilities, "focusDistance")
    /\ ~(Has(settings, "focusMode") /\ settings.focusMode = "continuous")
    /\ handleSettingChange("focusMode", "continuous")
    /\ NoteChange("focusAuto", "focusMode")

\* the Auto buttons of the ISO and shutter panels, disabled while the field
\* is falsy
ClearExposure(key, sibling) ==
    /\ MainUI
    /\ Interactive
    /\ used.changes < MaxChanges /\ InFlight < MaxTasks
    /\ Has(capabilities, key)
    /\ Truthy(settings, key)
    /\ ApplyInPlace(ClearedExposure(settings, key, sibling))
    /\ NoteChange("clear", key)

\* the Auto buttons of the white-balance and EV panels
ClearPlain(key) ==
    /\ MainUI
    /\ Interactive
    /\ used.changes < MaxChanges /\ InFlight < MaxTasks
    /\ Has(capabilities, key)
    /\ Truthy(settings, key)
    /\ ApplyInPlace(ClearedPlain(settings, key))
    /\ NoteChange("clear", key)

\* applySettingsToStream settles for a setting change or clear
ApplySettled(t, ok) ==
    /\ t.kind = "apply"
    /\ Commit(Cur, BagDel(tasks, t), tracks, vis, staleVis)
    /\ Note("applySettled", IF ok THEN "ok" ELSE "rejected")

\* ----------------------------------------------------------- aspect ratio
\* a ratio button, shown when the descriptor has a matching resolution:
\* the ratio is selected and, if a stream is held, stored in the settings
\* and applied in place
AspectClick(ratio) ==
    /\ MainUI
    /\ Interactive
    /\ used.changes < MaxChanges /\ InFlight < MaxTasks
    /\ HasResolution(capabilities, ratio)
    /\ LET newSettings == With(settings, "aspectRatio", ratio)
       IN Commit([Cur EXCEPT !.selectedAspectRatio = ratio,
                             !.settings = IF stream # NoStream
                                            THEN newSettings ELSE settings],
                 IF stream # NoStream
                   THEN BagAdd(tasks, Task("aspect", "apply", selectedCamera,
                                           newSettings, stream, NoStream,
                                           FALSE, ratio))
                   ELSE tasks,
                 tracks, vis, staleVis)
    /\ NoteChange("aspectClick", ratio)

\* an in-place application that restarts the stream although it resolved
AspectAppliedRestarts(t) ==
    /\ t.kind = "aspect" /\ t.pc = "apply"
    /\ Commit([Cur EXCEPT !.isLoading = TRUE, !.stream = NoStream],
              BagSwap(tasks, t, [t EXCEPT !.pc = "gum"]),
              stopCamera(tracks, t.old), vis, staleVis)
    /\ NoteStart("aspectApplied", t.ratio, t.s, t.cam)

\* the in-place application resolves: nothing more is done
AspectApplyOk(t) ==
    /\ t.kind = "aspect" /\ t.pc = "apply"
    /\ Commit(Cur, BagDel(tasks, t), tracks, vis, staleVis)
    /\ Note("aspectApplied", t.ratio)

\* the in-place application rejects: the fallback sets the loading flag,
\* stops the stream the handler captured, clears the stream state, stores
\* the new settings again and calls startCamera
AspectApplyFail(t) ==
    /\ t.kind = "aspect" /\ t.pc = "apply"
    /\ Commit([Cur EXCEPT !.isLoading = TRUE, !.stream = NoStream,
                          !.settings = t.s],
              BagSwap(tasks, t, [t EXCEPT !.pc = "gum"]),
              stopCamera(tracks, t.old), vis, staleVis)
    /\ NoteStart("aspectFallback", t.ratio, t.s, t.cam)

\* the fallback's startCamera has returned t.strm: it is stored and, when
\* the video element is rendered, play() awaited; else finally
AspectStarted(t0, t, tr) ==
    IF VideoMounted
      THEN /\ Commit([Cur EXCEPT !.stream = t.strm],
                     BagSwap(tasks, t0, [t EXCEPT !.pc = "play"]), tr, vis, staleVis)
           /\ Note("aspectStream", t.ratio)
      ELSE /\ Commit([Cur EXCEPT !.stream = t.strm, !.isLoading = FALSE],
                     BagDel(tasks, t0), tr, vis, staleVis)
           /\ Note("aspectStream", t.ratio)

\* the fallback's catch and finally
AspectFailed(t) ==
    /\ Commit([Cur EXCEPT !.error = "Failed to change aspect ratio",
                          !.errorDetails = "message", !.isLoading = FALSE],
              BagDel(tasks, t), tracks, vis, staleVis)
    /\ Note("aspectFailed", t.ratio)

AspectGumOk(t) ==
    /\ t.kind = "aspect" /\ t.pc = "gum"
    /\ NewStream <= MaxStreams
    /\ IF DOMAIN StartAdvanced(t.s) # {}
         THEN /\ Commit(Cur, BagSwap(tasks, t, [t EXCEPT !.pc = "constrain",
                                                        !.strm = NewStream]),
                        Acquired(tracks, t.cam), vis, staleVis)
              /\ Note("gumOk", t.cam)
         ELSE AspectStarted(t, [t EXCEPT !.strm = NewStream],
                            Acquired(tracks, t.cam))

AspectGumFail(t) ==
    /\ t.kind = "aspect" /\ t.pc = "gum"
    /\ AspectFailed(t)

AspectConstrainOk(t) ==
    /\ t.kind = "aspect" /\ t.pc = "constrain"
    /\ AspectStarted(t, t, tracks)

AspectConstrainFail(t) ==
    /\ t.kind = "aspect" /\ t.pc = "constrain"
    /\ AspectFailed(t)

\* play() resolves: finally
AspectPlayOk(t) ==
    /\ t.kind = "aspect" /\ t.pc = "play"
    /\ Commit([Cur EXCEPT !.isLoading = FALSE], BagDel(tasks, t), tracks, vis,
              staleVis)
    /\ Note("aspectPlay", "ok")

AspectPlayFail(t) ==
    /\ t.kind = "aspect" /\ t.pc = "play"
    /\ AspectFailed(t)

\* ------------------------------------------------- visibility and focus
\* The handlers below run on a closure c of the visibility effect: the one
\* now in place (cur) or a replaced one whose timer or pass is still
\* pending.  c2 is the closure as the step leaves it.
VisNow(cur, c2) == IF cur THEN c2 ELSE vis
StaleNow(cur, c, c2) ==
    IF cur THEN staleVis ELSE KeepStale(BagDel(staleVis, c), c2)

\* handleVisibilityChange called on closure c1 (suspended as c): return
\* early when a pass is running, the page is hidden, the closure has no
\* stream or no video element is rendered.  Else set the flag; if the
\* closure's track has ended or is disabled, stop the stream, clear the
\* stream state and call startCamera with the closure's settings and camera;
\* if the track is live and the video stalled, resume playback; if it is
\* playing, reset the flag.
HandleVisibility(cur, c, c1, hidden, stalled, op) ==
    IF c1.flag \/ hidden \/ c1.stream = NoStream \/ ~VideoMounted
      THEN /\ Commit(Cur, tasks, tracks, VisNow(cur, c1), StaleNow(cur, c, c1))
           /\ last' = [op |-> op, arg |-> "ignored"]
           /\ request' = NoRequest
      ELSE IF tracks[c1.stream].readyState = "ended" \/ ~tracks[c1.stream].enabled
             THEN LET c2 == [c1 EXCEPT !.flag = TRUE,
                                       !.passes = BagAdd(@, Pass("ended", "gum", NoStream))]
                  IN /\ Commit([Cur EXCEPT !.stream = NoStream], tasks,
                               stopCamera(tracks, c1.stream), VisNow(cur, c2),
                               StaleNow(cur, c, c2))
                     /\ last' = [op |-> op, arg |-> "restart"]
                     /\ request' = [s |-> c1.s, cam |-> c1.cam]
             ELSE IF stalled
                    THEN LET c2 == [c1 EXCEPT !.flag = TRUE,
                                              !.passes = BagAdd(@, Pass("resume", "resume", NoStream))]
                         IN /\ Commit(Cur, tasks, tracks, VisNow(cur, c2),
                                      StaleNow(cur, c, c2))
                            /\ last' = [op |-> op, arg |-> "resume"]
                            /\ request' = NoRequest
                    ELSE /\ Commit(Cur, tasks, tracks, VisNow(cur, c1),
                                   StaleNow(cur, c, c1))
                         /\ last' = [op |-> op, arg |-> "playing"]
                         /\ request' = NoRequest

\* a handler that releases the device as soon as the page is hidden
PageHiddenStops ==
    /\ ~docHidden
    /\ used.signals < MaxSignals
    /\ used' = [used EXCEPT !.signals = @ + 1]
    /\ docHidden' = TRUE
    /\ suspended' = NoSuspended
    /\ last' = [op |-> "pageHidden", arg |-> ""]
    /\ request' = NoRequest
    /\ Commit([Cur EXCEPT !.stream = NoStream], tasks,
              stopCamera(tracks, stream), vis, staleVis)
    /\ UNCHANGED unmounted

\* the host hides the page: the visibilitychange handler returns early
PageHidden ==
    /\ ~docHidden
    /\ used.signals < MaxSignals
    /\ used' = [used EXCEPT !.signals = @ + 1]
    /\ docHidden' = TRUE
    /\ suspended' = IF stream # NoStream /\ MainUI
                      THEN [live |-> TRUE, s |-> settings, cam |-> selectedCamera]
                      ELSE NoSuspended
    /\ last' = [op |-> "pageHidden", arg |-> ""]
    /\ request' = NoRequest
    /\ UNCHANGED <<reactVars, unmounted, initEffect, vis, staleVis, tasks,
                   tracks>>

\* the host shows the page again: visibilitychange runs the handler of the
\* effect in place
PageVisible(stalled) ==
    /\ docHidden
    /\ ~unmounted
    /\ InFlight < MaxTasks
    /\ docHidden' = FALSE
    /\ HandleVisibility(TRUE, vis, vis, FALSE, stalled, "pageVisible")
    /\ UNCHANGED <<suspended, used, unmounted>>

\* the window gains focus: handleFocus arms a 150 ms timer unless a pass is
\* running, no stream is held or no video element is rendered
WindowFocus ==
    /\ ~unmounted
    /\ InFlight < MaxTasks
    /\ used.signals < MaxSignals
    /\ ~vis.flag /\ vis.stream # NoStream /\ VideoMounted
    /\ Commit(Cur, tasks, tracks, [vis EXCEPT !.timers = @ + 1], staleVis)
    /\ last' = [op |-> "windowFocus", arg |-> ""]
    /\ used' = [used EXCEPT !.signals = @ + 1]
    /\ request' = NoRequest
    /\ suspended' = Remembered
    /\ UNCHANGED <<docHidden, unmounted>>

\* a focus timer of closure c fires: the handler runs unless a pass of the
\* closure is running
FocusTimer(cur, c, stalled) ==
    /\ c.timers > 0
    /\ LET c1 == [c EXCEPT !.timers = @ - 1]
       IN IF c1.flag
            THEN /\ Commit(Cur, tasks, tracks, VisNow(cur, c1), StaleNow(cur, c, c1))
                 /\ last' = [op |-> "focusTimer", arg |-> "ignored"]
                 /\ request' = NoRequest
            ELSE HandleVisibility(cur, c, c1, docHidden, stalled, "focusTimer")
    /\ suspended' = Remembered
    /\ UNCHANGED <<docHidden, used, unmounted>>

\* pass p of closure c ends: finally resets the closure's flag
PassDone(cur, c, p, ns, tr) ==
    LET c2 == [c EXCEPT !.flag = FALSE, !.passes = BagDel(@, p)]
    IN Commit(ns, tasks, tr, VisNow(cur, c2), StaleNow(cur, c, c2))

\* pass p of closure c suspends again as p2
PassNext(cur, c, p, p2, ns, tr) ==
    LET c2 == [c EXCEPT !.passes = BagSwap(@, p, p2)]
    IN Commit(ns, tasks, tr, VisNow(cur, c2), StaleNow(cur, c, c2))

\* startCamera has returned p2.strm to pass p: it is stored and, when the
\* video element is rendered, attached, with a 100 ms wait before play()
PassStarted(cur, c, p, p2, tr) ==
    /\ IF VideoMounted
         THEN PassNext(cur, c, p, [p2 EXCEPT !.pc = "settle"],
                       [Cur EXCEPT !.stream = p2.strm], tr)
         ELSE PassDone(cur, c, p, [Cur EXCEPT !.stream = p2.strm], tr)
    /\ Note("passStream", p.branch)

\* a pass's catch: the ended-track path shows "Camera disconnected", the
\* stalled-playback path only logs
PassFailed(cur, c, p) ==
    /\ PassDone(cur, c, p,
                IF p.branch = "ended"
                  THEN [Cur EXCEPT !.error = "Camera disconnected",
                                   !.errorDetails =
                                       "The camera was disconnected. Please try again."]
                  ELSE Cur,
                tracks)
    /\ Note("passFailed", p.branch)

PassGumOk(cur, c, p) ==
    /\ p.pc = "gum"
    /\ NewStream <= MaxStreams
    /\ IF DOMAIN StartAdvanced(c.s) # {}
         THEN /\ PassNext(cur, c, p, [p EXCEPT !.pc = "constrain", !.strm = NewStream],
                          Cur, Acquired(tracks, c.cam))
              /\ Note("gumOk", c.cam)
         ELSE PassStarted(cur, c, p, [p EXCEPT !.strm = NewStream],
                          Acquired(tracks, c.cam))

PassGumFail(cur, c, p) ==
    /\ p.pc = "gum"
    /\ PassFailed(cur, c, p)

PassConstrainOk(cur, c, p) ==
    /\ p.pc = "constrain"
    /\ PassStarted(cur, c, p, p, tracks)

PassConstrainFail(cur, c, p) ==
    /\ p.pc = "constrain"
    /\ PassFailed(cur, c, p)

\* the 100 ms wait is over: videoRef.current.load() throws when no video
\* element is rendered any more, else play() is awaited
PassSettle(cur, c, p) ==
    /\ p.pc = "settle"
    /\ IF VideoMounted
         THEN /\ PassNext(cur, c, p, [p EXCEPT !.pc = "play"], Cur, tracks)
              /\ Note("passSettle", p.branch)
         ELSE PassFailed(cur, c, p)

PassPlayOk(cur, c, p) ==
    /\ p.pc = "play"
    /\ PassDone(cur, c, p, Cur, tracks)
    /\ Note("passPlay", "ok")

PassPlayFail(cur, c, p) ==
    /\ p.pc = "play"
    /\ PassFailed(cur, c, p)

\* a resume branch that restarts the stream however play() settles
PassResumeAlwaysRestarts(cur, c, p, aborted) ==
    /\ p.pc = "resume"
    /\ PassNext(cur, c, p, [p EXCEPT !.pc = "gum"],
                [Cur EXCEPT !.stream = NoStream], stopCamera(tracks, c.stream))
    /\ NoteStart("passResume", IF aborted THEN "AbortError" ELSE "ok", c.s, c.cam)

\* the resumed play() resolves, or rejects with AbortError: nothing more
PassResumeOk(cur, c, p, aborted) ==
    /\ p.pc = "resume"
    /\ PassDone(cur, c, p, Cur, tracks)
    /\ Note("passResume", IF aborted THEN "AbortError" ELSE "ok")

\* the resumed play() rejects with another error: stop the stream, clear
\* the stream state and call startCamera
PassResumeFail(cur, c, p) ==
    /\ p.pc = "resume"
    /\ PassNext(cur, c, p, [p EXCEPT !.pc = "gum"],
                [Cur EXCEPT !.stream = NoStream], stopCamera(tracks, c.stream))
    /\ NoteStart("passResumeRestart", "", c.s, c.cam)

\* ------------------------------------------------------------------- host
\* the host ends a live track (device unplugged, app suspended)
TrackEnds(i) ==
    /\ used.ends < MaxEnds
    /\ used' = [used EXCEPT !.ends = @ + 1]
    /\ tracks[i].readyState = "live"
    /\ tracks' = [tracks EXCEPT ![i].readyState = "ended"]
    /\ last' = [op |-> "trackEnds", arg |-> ""]
    /\ request' = NoRequest
    /\ suspended' = Remembered
    /\ UNCHANGED <<reactVars, unmounted, initEffect, vis, staleVis, tasks,
                   docHidden>>

\* ------------------------------------------------------------------ steps
\* slider positions the user picks
SliderInputs == {<<"iso", 100>>, <<"exposureTime", 8>>, <<"focusDistance", 30>>,
                 <<"colorTemperature", 5600>>, <<"exposureCompensation", 1>>,
                 <<"frameRate", 0>>}

\* the visibility closures that exist: <<is the one in place, closure>>
Closures == {<<TRUE, vis>>} \cup {<<FALSE, c>> : c \in BagToSet(staleVis)}

\* device selection: the initCamera instances, with rejections named from
\* names, and the selection handlers
InitStep(t, names) ==
    \/ InitTimer(t)
    \/ InitProbeOk(t)
    \/ \E name \in names : InitProbeFail(t, name)
    \/ InitGumOk(t)
    \/ \E name \in names : InitGumFail(t, name)
    \/ InitConstrainOk(t)
    \/ \E name \in names : InitConstrainFail(t, name)
    \/ RetryTimer(t)

SelectStep ==
    \/ \E i \in 1..Len(cameras) : handleCameraChange(cameras[i])
    \/ handleRetry
    \/ handleSwitchCamera

\* setting changes and clears, and their in-place applications
ChangeStep(inputs) ==
    \/ \E kv \in inputs : SliderChange(kv[1], kv[2])
    \/ TorchToggle
    \/ FocusAuto
    \/ ClearExposure("iso", "exposureTime")
    \/ ClearExposure("exposureTime", "iso")
    \/ ClearPlain("colorTemperature")
    \/ ClearPlain("exposureCompensation")
    \/ \E t \in BagToSet(tasks) : \E ok \in BOOLEAN : ApplySettled(t, ok)

\* an aspect-ratio pick's in-place application and fallback move on
AspectSettle(t) ==
    \/ AspectApplyOk(t)
    \/ AspectApplyFail(t)
    \/ AspectGumOk(t)
    \/ AspectGumFail(t)
    \/ AspectConstrainOk(t)
    \/ AspectConstrainFail(t)
    \/ AspectPlayOk(t)
    \/ AspectPlayFail(t)

\* aspect-ratio picks with their in-place application and fallback
AspectStep(ratios) ==
    \/ \E ratio \in ratios : AspectClick(ratio)
    \/ \E t \in BagToSet(tasks) : AspectSettle(t)

\* visibility and focus signals and the handler passes they start
PassStep(cur, c, p) ==
    \/ PassGumOk(cur, c, p)
    \/ PassGumFail(cur, c, p)
    \/ PassConstrainOk(cur, c, p)
    \/ PassConstrainFail(cur, c, p)
    \/ PassSettle(cur, c, p)
    \/ PassPlayOk(cur, c, p)
    \/ PassPlayFail(cur, c, p)
    \/ \E aborted \in BOOLEAN : PassResumeOk(cur, c, p, aborted)
    \/ PassResumeFail(cur, c, p)

VisibilityStep ==
    \/ PageHidden
    \/ \E stalled \in BOOLEAN : PageVisible(stalled)
    \/ WindowFocus
    \/ \E cc \in Closures : \E stalled \in BOOLEAN : FocusTimer(cc[1], cc[2], stalled)
    \/ \E cc \in Closures : \E p \in BagToSet(cc[2].passes) : PassStep(cc[1], cc[2], p)

HostStep == \E i \in 1..Len(tracks) : TrackEnds(i)

\* ------------------------------------------------------- specifications
\* The session right after mount, enumeration answering list and an
\* undisturbed acquisition of its first device: the state LoadCameras,
\* InitTimer, InitProbeOk, InitGumOk and InitConstrainOk lead to from Init.
Live(list) ==
    LET caps == getCameraCapabilities(list[1])
        defaultSettings == DefaultSettings(caps, "16:9")
    IN /\ stream = 1
       /\ cameras = list
       /\ selectedCamera = list[1]
       /\ capabilities = caps
       /\ settings = defaultSettings
       /\ isLoading = FALSE
       /\ error = ""
       /\ errorDetails = ""
       /\ selectedAspectRatio = "16:9"
       /\ unmounted = FALSE
       /\ initEffect = [on |-> TRUE, stream |-> NoStream]
       /\ vis = Closure(1, defaultSettings, list[1])
       /\ staleVis = EmptyBag
       /\ tasks = EmptyBag
       /\ tracks = Acquired(<<>>, list[1])
       /\ docHidden = FALSE
       /\ last = [op |-> "initStream", arg |-> list[1]]
       /\ request = NoRequest
       /\ suspended = NoSuspended
       /\ used = [selects |-> 0, changes |-> 0, signals |-> 0, ends |-> 0]

\* Mount, enumeration and device selection: every camera list, every error
\* name, the lens picker, retry, switch and unmount.
NextMount ==
    \/ \E t \in BagToSet(tasks) : \E list \in CameraLists : LoadCameras(t, list)
    \/ \E t \in BagToSet(tasks) : InitStep(t, ErrorNames)
    \/ SelectStep
    \/ Unmount

SpecMount == Init /\ [][NextMount]_vars

\* The session's life from mount with two devices: selection, the host's
\* visibility and focus signals, tracks the host ends, recovery passes and
\* unmount.
Next ==
    \/ \E t \in BagToSet(tasks) : LoadCameras(t, <<"A", "B">>)
    \/ \E t \in BagToSet(tasks) : InitStep(t, {"NotReadableError"})
    \/ SelectStep
    \/ VisibilityStep
    \/ HostStep
    \/ Unmount

Spec == Init /\ [][Next]_vars

\* Setting changes on a live session of each kind of device: sliders, torch,
\* the Auto buttons, aspect-ratio picks with their fallback.
NextSettings ==
    \/ ChangeStep(SliderInputs)
    \/ AspectStep({"4:3", "1:1"})

SpecSettings ==
    /\ \E list \in CameraLists : Len(list) > 0 /\ Live(list)
    /\ [][NextSettings]_vars

\* Device switches on a live session while aspect-ratio picks are in flight.
NextSwitch ==
    \/ \E t \in BagToSet(tasks) : InitStep(t, {"OverconstrainedError"})
    \/ \E t \in BagToSet(tasks) : \E ok \in BOOLEAN : InitPlaySettled(t, ok)
    \/ SelectStep
    \/ AspectStep({"4:3"})

SpecSwitch == Live(<<"A", "B">>) /\ [][NextSwitch]_vars

\* Suspension and recovery of a live session while its settings change.
NextVisibility ==
    \/ VisibilityStep
    \/ HostStep
    \/ used.changes < MaxRecoveryChanges /\ SliderChange("iso", 100)
    \/ used.changes < MaxRecoveryChanges
       /\ ClearExposure("iso", "exposureTime")
    \/ \E t \in BagToSet(tasks) : \E ok \in BOOLEAN : ApplySettled(t, ok)
    \/ used.changes < MaxRecoveryChanges /\ AspectClick("4:3")
    \/ \E t \in BagToSet(tasks) : AspectSettle(t)

SpecVisibility == Live(<<"A", "B">>) /\ [][NextVisibility]_vars

\* Hide, show and focus signals on a live session of one device, with the
\* host ending tracks.
NextResume ==
    \/ VisibilityStep
    \/ HostStep

SpecResume == Live(<<"A">>) /\ [][NextResume]_vars

\* Aspect-ratio picks on a live session, with their in-place applications
\* and fallbacks, interleaved with ISO changes.
NextAspect ==
    \/ AspectStep({"4:3", "1:1"})
    \/ SliderChange("iso", 100)
    \/ \E t \in BagToSet(tasks) : \E ok \in BOOLEAN : ApplySettled(t, ok)

SpecAspect == Live(<<"A", "B">>) /\ [][NextAspect]_vars

\* Mount on hosts with one, two or three cameras, with acquisitions that
\* fail, and the selection handlers.
LensLists == {<<"A">>, <<"A", "B">>, <<"A", "B", "C">>}

NextLens ==
    \/ \E t \in BagToSet(tasks) : \E list \in LensLists : LoadCameras(t, list)
    \/ \E t \in BagToSet(tasks) : InitStep(t, {"NotFoundError"})
    \/ SelectStep

SpecLens == Init /\ [][NextLens]_vars

\* Acquisitions started by the switch button on a live session of two
\* devices, with aspect-ratio fallbacks whose finally clears the loading flag
\* so that a video element is rendered while initCamera attaches its stream.
NextAttach ==
    \/ \E t \in BagToSet(tasks) : InitStep(t, {"NotFoundError"})
    \/ \E t \in BagToSet(tasks) : \E ok \in BOOLEAN : InitPlaySettled(t, ok)
    \/ handleSwitchCamera
    \/ AspectStep({"4:3"})

SpecAttach == Live(<<"A", "B">>) /\ [][NextAttach]_vars

\* A live session on the first of two devices whose user sets a colour
\* temperature or picks an aspect ratio and then picks the second lens.
NextCarry ==
    \/ SliderChange("colorTemperature", 5600)
    \/ \E t \in BagToSet(tasks) : \E ok \in BOOLEAN : ApplySettled(t, ok)
    \/ AspectStep({"4:3"})
    \/ handleCameraChange("B")
    \/ \E t \in BagToSet(tasks) : InitStep(t, {"NotFoundError"})

SpecCarry == Live(<<"A", "B">>) /\ [][NextCarry]_vars

\* ------------------------------------------------------------- properties
\* C1: in every reachable state at most one acquired stream has live
\* (unstopped) tracks.
AtMostOneLiveStream == Cardinality(LiveStreams) <= 1

\* C2: every device selection, by the lens picker (handleCameraChange) or by
\* the error screen's switch-device action (handleSwitchCamera), leaves the
\* tracks of the stream the session held before it stopped.
SelectionStopsPrevious ==
    [][(/\ last'.op \in {"handleCameraChange", "handleSwitchCamera"}
        /\ stream # NoStream)
       => tracks'[stream].readyState = "ended"]_vars

\* the initCamera instances a later selection has superseded and that are
\* still in flight
Superseded(tk) == {t \in BagToSet(tk) : t.kind = "init" /\ ~t.mounted}
RECURSIVE SumCopies(_, _)
SumCopies(S, tk) ==
    IF S = {} THEN 0
    ELSE LET t == CHOOSE x \in S : TRUE
         IN CopiesIn(t, tk) + SumCopies(S \ {t}, tk)

\* C3: when the acquisition of a device that a later selection superseded
\* completes, nothing of it is written to the session state and every stream
\* it obtained and had not yet handed to the session is stopped.
SupersededDiscarded ==
    [][SumCopies(Superseded(tasks'), tasks') < SumCopies(Superseded(tasks), tasks)
       => /\ reactVars' = reactVars
          /\ \A t \in Superseded(tasks) :
                (CopiesIn(t, tasks') < CopiesIn(t, tasks) /\ t.pc # "play")
                => /\ t.strm # NoStream => tracks'[t.strm].readyState = "ended"
                   /\ \A i \in (Len(tracks) + 1)..Len(tracks') :
                         tracks'[i].readyState = "ended"]_vars

\* C4: an explicit manual value never coexists with its mode in auto:
\* exposureTime or iso present implies exposureMode is not "continuous", and
\* focusDistance present implies focusMode is not "continuous".
ManualValueNeverInAuto ==
    /\ (Has(settings, "exposureTime") \/ Has(settings, "iso"))
       => ~(Has(settings, "exposureMode") /\ settings.exposureMode = "continuous")
    /\ Has(settings, "focusDistance")
       => ~(Has(settings, "focusMode") /\ settings.focusMode = "continuous")

\* C5: right after a slider sets exposureTime, iso or focusDistance on a
\* device whose capabilities list "manual" for the paired mode, the paired
\* mode (exposureMode resp. focusMode) of the settings is "manual".
ManualFieldForcesManualMode ==
    last.op = "handleSettingChange"
    => /\ (last.arg \in {"exposureTime", "iso"}
           /\ Includes(capabilities, "exposureMode", "manual"))
          => (Has(settings, "exposureMode") /\ settings.exposureMode = "manual")
       /\ (last.arg = "focusDistance"
           /\ Includes(capabilities, "focusMode", "manual"))
          => (Has(settings, "focusMode") /\ settings.focusMode = "manual")

\* the first change of a session whose exposure mode was continuous sets iso
\* on a device that lists both modes
IsoSetFromContinuous ==
    /\ last = [op |-> "handleSettingChange", arg |-> "iso"]
    /\ used.changes = 1
    /\ Includes(capabilities, "exposureMode", "continuous")
    /\ Includes(capabilities, "exposureMode", "manual")
    /\ settings.iso = 100
    /\ settings.exposureMode = "manual"

\* the other manual field of the exposure group
Sibling(key) == IF key = "iso" THEN "exposureTime" ELSE "iso"

\* C6: clearing iso or exposureTime removes the field, and sets exposureMode
\* to "continuous" exactly when the other field of the group is absent too
\* and the device supports "continuous"; otherwise exposureMode is left as
\* it was.
ClearResetsModeWhenLast ==
    [][(last'.op = "clear" /\ last'.arg \in {"iso", "exposureTime"})
       => /\ ~Has(settings', last'.arg)
          /\ IF /\ ~Has(settings', Sibling(last'.arg))
                /\ Includes(capabilities, "exposureMode", "continuous")
               THEN /\ Has(settings', "exposureMode")
                    /\ settings'.exposureMode = "continuous"
               ELSE /\ Has(settings', "exposureMode") = Has(settings, "exposureMode")
                    /\ Has(settings, "exposureMode")
                       => settings'.exposureMode = settings.exposureMode]_vars

\* C7: a rejected in-place application of a setting change starts the
\* fallback (a startCamera call in the step that handles the rejection), and
\* when the fallback's startCamera has returned the session holds a live
\* track.
RejectedApplyFallsBack ==
    /\ last = [op |-> "applySettled", arg |-> "rejected"] => request # NoRequest
    /\ last.op = "aspectFallback" => request # NoRequest
    /\ last.op = "aspectStream"
       => (stream # NoStream /\ tracks[stream].readyState = "live")

\* C8: after the only setting change of a session has failed totally (its
\* in-place application rejected and, for an aspect-ratio pick, the fallback
\* failed too), the settings are those the session had before the change and
\* the stream it held is still held and live.
TotalFailureKeepsLastGood ==
    (/\ used.changes = 1
     /\ \/ last = [op |-> "applySettled", arg |-> "rejected"]
        \/ last.op = "aspectFailed")
    => /\ settings = DefaultSettings(capabilities, "16:9")
       /\ stream = 1
       /\ tracks[1].readyState = "live"

\* the steps of a recovery pass of the visibility handler
PassOps == {"pageVisible", "focusTimer", "passStream", "passFailed",
            "passSettle", "passPlay", "passResume", "passResumeRestart"}

\* C9: when the page is shown again and the session's track has ended or is
\* disabled, the old stream is stopped and startCamera is called for the
\* device selected, with the settings held, when the page was hidden; no
\* step of a recovery pass changes the settings or the selected device.
RestartUsesSuspendedSettings ==
    /\ [](/\ last = [op |-> "pageVisible", arg |-> "restart"]
          /\ suspended.live
          => request = [s |-> suspended.s, cam |-> suspended.cam])
    /\ [][(last'.op = "pageVisible" /\ last'.arg = "restart")
          => (stream # NoStream /\ tracks'[stream].readyState = "ended")]_vars
    /\ [][last'.op \in PassOps
          => settings' = settings /\ selectedCamera' = selectedCamera]_vars

\* recovery passes of the visibility handler in flight, over every closure
RECURSIVE SumPasses(_, _)
SumPasses(B, S) ==
    IF S = {} THEN 0
    ELSE LET c == CHOOSE x \in S : TRUE
         IN CopiesIn(c, B) * BagCardinality(c.passes) + SumPasses(B, S \ {c})
PassesInFlight ==
    BagCardinality(vis.passes) + SumPasses(staleVis, BagToSet(staleVis))

\* C10: at most one visibility-restore handling pass is executing at any
\* time.
AtMostOnePass == PassesInFlight <= 1

\* C11: every explicit teardown (unmount, a device selection, an error being
\* surfaced) leaves the tracks of the stream the session held at that moment
\* stopped.
TeardownStopsCurrent ==
    [][(/\ \/ last'.op \in {"unmount", "handleCameraChange", "handleSwitchCamera"}
           \/ (error = "" /\ error' # "")
        /\ stream # NoStream)
       => tracks'[stream].readyState = "ended"]_vars

\* C12: every terminal failure of a mounted session (an enumeration that
\* yields no device, a failed acquisition, a failed recovery, a failed
\* fallback) leaves a non-empty error.
NoSilentFailure ==
    ~unmounted
    => /\ (last.op = "loadCameras" /\ Len(cameras) = 0) => error # ""
       /\ (last.op = "initFailed" /\ selectedCamera # "" /\ ~isLoading)
          => error # ""
       /\ last.op \in {"passFailed", "aspectFailed"} => error # ""

\* C13: when a recovery pass of the visibility handler has failed, the
\* session shows an error with the message and detail that initCamera's
\* categorization gives to some error name.
RecoveryFailureCategorized ==
    (last.op = "passFailed" /\ ~unmounted)
    => \E name \in ErrorNames :
          /\ error = ErrorFor(name)[1]
          /\ errorDetails = ErrorFor(name)[2]

\* C14: when the acquisition of the selected device fails with an error of
\* some name, the step that handles it clears the loading flag and shows
\* the category of that name with a detail string: NotAllowedError access
\* denied, NotFoundError no camera, NotReadableError not accessible,
\* OverconstrainedError settings not supported, any other name the unknown
\* category with the error's message.
AcquisitionErrorCategorized ==
    [][(/\ last'.op = "initFailed"
        /\ ~unmounted
        /\ CurrentInit(tasks) # {}
        /\ CurrentInit(tasks') = {})
       => /\ ~isLoading'
          /\ errorDetails' # ""
          /\ error' = CASE last'.arg = "NotAllowedError" -> "Camera access denied"
                        [] last'.arg = "NotFoundError" -> "No camera found"
                        [] last'.arg = "NotReadableError" -> "Camera is not accessible"
                        [] last'.arg = "OverconstrainedError" ->
                             "Camera settings not supported"
                        [] OTHER -> "Failed to start camera"
          /\ last'.arg \notin {"NotAllowedError", "NotFoundError",
                               "NotReadableError", "OverconstrainedError"}
             => errorDetails' = "message"]_vars

\* the current acquisition has been denied permission and the error screen
\* says so
AccessDeniedShown ==
    /\ last = [op |-> "initFailed", arg |-> "NotAllowedError"]
    /\ ~unmounted
    /\ ErrorUI
    /\ error = "Camera access denied"
    /\ stream = NoStream


\* the numeric-range dimensions of the capability descriptor
RangeKeys == {"frameRate", "aspectRatio", "width", "height", "iso", "zoom",
              "colorTemperature", "exposureCompensation", "exposureTime",
              "focusDistance"}

\* C15: a numeric-range dimension is present in the descriptor the session
\* holds only if the device's raw capability object defines both its min and
\* its max, and the descriptor has no field the raw object lacks.
NormalizerKeepsWholeRanges ==
    capabilities # NullCaps
    => LET raw == RawCaps(capabilities.deviceId)
       IN /\ DOMAIN capabilities \subseteq DOMAIN raw
          /\ \A k \in DOMAIN capabilities \cap RangeKeys :
                {"min", "max"} \subseteq DOMAIN raw[k]


\* C16 as stated: on the device reporting frameRate 15..30, focusMode
\* [continuous, manual] and focusDistance 0..1, setting focusDistance to 0.3
\* on the default settings yields exactly {frameRate: 30, focusMode:
\* "manual", focusDistance: 0.3}, no other field present.
ScenarioSettingsExact ==
    [][(/\ selectedCamera = "F"
        /\ used.changes = 0
        /\ last'.op = "handleSettingChange" /\ last'.arg = "focusDistance")
       => settings' = [frameRate |-> 30, focusMode |-> "manual",
                       focusDistance |-> 30]]_vars

\* C16 as amended: on that device the default settings on selection are
\* frameRate 30, focusMode "continuous" and the selected aspect ratio, and
\* setting focusDistance to 0.3 on them yields exactly {frameRate: 30,
\* aspectRatio: the selected ratio, focusMode: "manual", focusDistance: 0.3}.
ScenarioSettingsWithRatio ==
    [][(/\ selectedCamera = "F"
        /\ used.changes = 0
        /\ last'.op = "handleSettingChange" /\ last'.arg = "focusDistance")
       => /\ settings = [frameRate |-> 30, aspectRatio |-> "16:9",
                         focusMode |-> "continuous"]
          /\ settings' = [frameRate |-> 30, aspectRatio |-> "16:9",
                          focusMode |-> "manual", focusDistance |-> 30]]_vars

FocusDistanceSetOnDefaults ==
    /\ selectedCamera = "F"
    /\ used.changes = 1
    /\ last = [op |-> "handleSettingChange", arg |-> "focusDistance"]
    /\ settings.focusDistance = 30
    /\ settings.focusMode = "manual"
    /\ settings.frameRate = 30


\* the constraint objects a and b carry exactly the defined fields of s,
\* each with the value s holds
SendsExactly(s, a, b) ==
    /\ DOMAIN a \cup DOMAIN b = DOMAIN s
    /\ \A k \in DOMAIN a : a[k] = s[k]
    /\ \A k \in DOMAIN b : b[k] = s[k]

\* C17: the constraint objects startCamera builds for a request, and the
\* ones applySettingsToStream builds for an application in flight, hold a
\* settings field if and only if the settings define it, with its value
\* unchanged, 0 and false included.
BuildersSendDefinedFields ==
    /\ request # NoRequest
       => SendsExactly(request.s, StartBasic(request.s, request.cam).video,
                       StartAdvanced(request.s))
    /\ \A t \in BagToSet(tasks) :
          t.pc = "apply"
          => SendsExactly(t.s, ApplyMediaTrack(t.s), ApplyImageCapture(t.s))


\* the settings startCamera may request from getUserMedia, and the ones it
\* applies to the acquired track
AcquisitionKeys == {"frameRate", "width", "height"}
TrackKeys == {"aspectRatio", "colorTemperature", "exposureCompensation",
              "exposureMode", "exposureTime", "focusDistance", "focusMode",
              "iso", "torch", "whiteBalanceMode", "zoom"}

\* C18: of the settings of a startCamera request, the getUserMedia
\* constraints hold only frameRate, width and height (next to the device),
\* the constraints applied to the acquired track hold only the other eleven
\* fields, the two sets of fields are disjoint, and together they are all the
\* defined settings.
AcquisitionSplitCovers ==
    request # NoRequest
    => LET basic == StartBasic(request.s, request.cam)
           advanced == StartAdvanced(request.s)
       IN /\ basic.deviceId = request.cam
          /\ DOMAIN basic.video \subseteq AcquisitionKeys
          /\ DOMAIN advanced \subseteq TrackKeys
          /\ DOMAIN basic.video \cap DOMAIN advanced = {}
          /\ DOMAIN basic.video \cup DOMAIN advanced = DOMAIN request.s


\* C19: whenever the session holds a capability descriptor it holds a stream
\* whose track is live.
CapabilitiesOnlyWhileLive ==
    capabilities # NullCaps
    => /\ stream # NoStream
       /\ tracks[stream].readyState = "live"


\* C20: handleSettingChange called with a field and the value the settings
\* already hold for it computes the settings it started from, for every
\* field of every reachable settings state.
ReapplyingIsIdempotent ==
    capabilities # NullCaps
    => \A key \in DOMAIN settings :
          NewSettings(settings, capabilities, key, settings[key]) = settings


\* C21: when a startCamera call rejects after its getUserMedia resolved (the
\* rejection of track.applyConstraints ends an initCamera instance or an
\* aspect-ratio fallback in its catch), the track that call obtained is not
\* live afterwards.
FailedStartHoldsNoDevice ==
    [][\A t \in BagToSet(tasks) :
          (/\ t.pc = "constrain"
           /\ CopiesIn(t, tasks') < CopiesIn(t, tasks)
           /\ last'.op \in {"initFailed", "aspectFailed"})
          => tracks'[t.strm].readyState = "ended"]_vars


\* C22: whenever the session holds a stream, that stream was acquired for
\* the device now selected.
StreamOfSelectedDevice ==
    (stream # NoStream /\ ~unmounted)
    => tracks[stream].dev = selectedCamera


\* C23: a handler run that finds the track live and the video stalled, or
\* the video playing, stops no track, keeps the stream and calls no
\* startCamera, and one that finds the video playing starts nothing; a
\* resumed play() that resolves or rejects with AbortError does the same, so
\* the stream is re-acquired only after play() failed with another error.
StalledPlaybackResumedInPlace ==
    [][/\ (last'.op \in {"pageVisible", "focusTimer"}
           /\ last'.arg \in {"resume", "playing"})
          => (tracks' = tracks /\ stream' = stream /\ request' = NoRequest)
       /\ (last'.op \in {"pageVisible", "focusTimer"} /\ last'.arg = "playing")
          => InFlight' <= InFlight
       /\ last'.op = "passResume"
          => (tracks' = tracks /\ stream' = stream /\ request' = NoRequest)]_vars

PlaybackResumedAfterAbort ==
    /\ last = [op |-> "passResume", arg |-> "AbortError"]
    /\ stream = 1
    /\ tracks[1].readyState = "live"
    /\ Len(tracks) = 1
    /\ ~vis.flag


\* C24: an initCamera instance or aspect-ratio fallback to which startCamera
\* returns a stream after the component was unmounted or another device was
\* selected stops that stream and leaves the stream state alone, and a
\* recovery pass installs the stream it acquired only if its device is
\* still the selected one.
AbandonedAcquisitionReleases ==
    [][/\ \A t \in BagToSet(tasks) :
             (/\ t.kind \in {"init", "aspect"}
              /\ t.pc = "constrain"
              /\ CopiesIn(t, tasks') < CopiesIn(t, tasks)
              /\ last'.op \in {"initStream", "initAbandoned", "aspectStream"}
              /\ (unmounted \/ selectedCamera # t.cam))
             => (tracks'[t.strm].readyState = "ended" /\ stream' = stream)
       /\ (last'.op = "passStream" /\ ~unmounted)
          => tracks'[stream'].dev = selectedCamera']_vars


\* the user's setting changes, and the steps in which an earlier change's
\* asynchronous execution continues
ChangeOps == {"handleSettingChange", "focusAuto", "clear", "aspectClick"}
ContinuationOps == {"applySettled", "aspectApplied", "aspectFallback", "gumOk",
                    "aspectStream", "aspectPlay", "aspectFailed"}

\* C25: of interleaved setting changes the later one wins: a change on a
\* held stream issues an application of the settings it produced, and no
\* continuation of an earlier change alters the settings later changes have
\* produced or sends the platform constraints built from other settings.
LaterChangeWins ==
    [][/\ (last'.op \in ChangeOps /\ stream # NoStream)
          => \E t \in BagToSet(tasks') :
                /\ t.pc = "apply" /\ t.s = settings'
                /\ CopiesIn(t, tasks') > CopiesIn(t, tasks)
       /\ last'.op \in ContinuationOps
          => /\ settings' = settings
             /\ request' # NoRequest => request'.s = settings]_vars


\* C26: whenever an error is surfaced the session holds no stream with a
\* live track.
ErrorHoldsNoLiveStream ==
    (error # "" /\ ~unmounted /\ stream # NoStream)
    => tracks[stream].readyState # "live"


\* C27: while an error is surfaced no step calls startCamera on its own
\* account: the only acquisition that may proceed is the one a user's
\* retry, switch or selection has started (an initCamera instance).
NoAutomaticAcquisitionAfterFailure ==
    [][(error # "" /\ ~unmounted /\ request' # NoRequest)
       => last'.op = "initProbeOk"]_vars


\* C28: Retry stops the stream still held and clears the error; when its
\* 100 ms timer fires the device selected when Retry was pressed is selected
\* again, the session is loading, and exactly one initCamera instance, for
\* that device, is the one in place.
RetryReacquiresSameDevice ==
    [][/\ last'.op = "handleRetry"
          => /\ stream # NoStream => tracks'[stream].readyState = "ended"
             /\ stream' = NoStream
             /\ error' = ""
             /\ last'.arg = selectedCamera
       /\ (last'.op = "retryTimer" /\ ~unmounted)
          => /\ last'.arg # ""
             /\ selectedCamera' = last'.arg
             /\ isLoading' /\ error' = ""
             /\ Cardinality(CurrentInit(tasks')) = 1
             /\ \A t \in CurrentInit(tasks') : t.cam = last'.arg /\ t.pc = "timer"
             /\ CurrentInit(tasks) = {}]_vars


\* the devices k consecutive switch actions select, starting from deviceId
RECURSIVE SwitchOrbit(_, _, _)
SwitchOrbit(list, deviceId, k) ==
    IF k = 0 THEN <<>>
    ELSE LET d == NextCamera(list, deviceId)
         IN <<d>> \o SwitchOrbit(list, d, k - 1)

\* C29: a switch action happens only with more than one enumerated device
\* and, the selected device being at position i of the n enumerated ones,
\* selects the device at position (i + 1) mod n; from every enumerated
\* device n consecutive switches select n different devices, every
\* enumerated device among them, the last being the starting one.
SwitchIsRoundRobin ==
    /\ [][(last'.op = "handleSwitchCamera"
           /\ \E i \in 1..Len(cameras) : cameras[i] = selectedCamera)
          => /\ Len(cameras) > 1
             /\ \E i \in 1..Len(cameras) :
                   /\ cameras[i] = selectedCamera
                   /\ selectedCamera' = cameras[(i % Len(cameras)) + 1]]_vars
    /\ [](\A j \in 1..Len(cameras) :
             LET n == Len(cameras)
                 orbit == SwitchOrbit(cameras, cameras[j], n)
             IN /\ orbit[n] = cameras[j]
                /\ {orbit[k] : k \in 1..n} = {cameras[k] : k \in 1..n}
                /\ \A k, l \in 1..n : orbit[k] = orbit[l] => k = l)

SwitchedTwiceOfThree ==
    /\ last = [op |-> "handleSwitchCamera", arg |-> "C"]
    /\ cameras = <<"A", "B", "C">>
    /\ selectedCamera = "C"
    /\ used.selects = 2


\* C30: a ratio pick on a held stream stops no track, keeps the stream,
\* calls no startCamera and leaves an in-place application of the new
\* settings to that stream pending; an application that resolves does the
\* same and leaves nothing pending; the stream is stopped and startCamera
\* called for a pick only in the step in which its application rejects.
AspectAppliedInPlaceFirst ==
    [][/\ (last'.op = "aspectClick" /\ stream # NoStream)
          => /\ tracks' = tracks /\ stream' = stream /\ request' = NoRequest
             /\ \E t \in BagToSet(tasks') :
                   /\ t.kind = "aspect" /\ t.pc = "apply"
                   /\ t.old = stream /\ t.s = settings'
                   /\ t.s.aspectRatio = last'.arg
                   /\ CopiesIn(t, tasks') > CopiesIn(t, tasks)
       /\ last'.op = "aspectApplied"
          => /\ tracks' = tracks /\ stream' = stream /\ request' = NoRequest
             /\ BagCardinality(tasks') < BagCardinality(tasks)
       /\ last'.op = "aspectFallback"
          => \E t \in BagToSet(tasks) :
                /\ t.kind = "aspect" /\ t.pc = "apply"
                /\ CopiesIn(t, tasks') < CopiesIn(t, tasks)
                /\ request' = [s |-> t.s, cam |-> t.cam]]_vars

AspectAppliedKeepsStream ==
    /\ last = [op |-> "aspectApplied", arg |-> "4:3"]
    /\ settings.aspectRatio = "4:3"
    /\ stream = 1
    /\ tracks[1].readyState = "live"
    /\ Len(tracks) = 1


HiddenTakesNoAction ==
    [][(~docHidden /\ docHidden')
       => /\ last'.op = "pageHidden"
          /\ tracks' = tracks
          /\ tasks' = tasks
          /\ vis' = vis /\ staleVis' = staleVis
          /\ request' = NoRequest
          /\ stream' = stream
          /\ settings' = settings
          /\ capabilities' = capabilities
          /\ selectedCamera' = selectedCamera
          /\ isLoading' = isLoading
          /\ error' = error /\ errorDetails' = errorDetails]_vars

HiddenWhileLive ==
    /\ docHidden
    /\ last.op = "pageHidden"
    /\ stream = 1
    /\ tracks[1].readyState = "live"
    /\ Len(tracks) = 1
    /\ MainUI


\* C33 as stated: when the acquisition for the newly selected device stores
\* its settings, every field of the settings held before other than the two
\* modes keeps its value.
SettingsCarriedForward ==
    [][last'.op = "initProbeOk"
       => \A k \in DOMAIN settings \ {"exposureMode", "focusMode"} :
            Has(settings', k) /\ settings'[k] = settings[k]]_vars

\* C33 as amended: when the acquisition for the newly selected device stores
\* its settings they are that device's defaults and nothing else: the
\* aspect ratio selected when the acquisition began, the highest frame rate
\* of a reported bounded range (A: 30, B: none) and the two modes recomputed
\* from the new capabilities; every other field set before is absent.
SettingsResetOnSwitch ==
    [][last'.op = "initProbeOk"
       => \E t \in BagToSet(tasks) :
            /\ t.kind = "init" /\ t.pc = "probe" /\ t.cam = last'.arg
            /\ settings' = IF t.cam = "A"
                  THEN [frameRate |-> 30, exposureMode |-> "continuous",
                        focusMode |-> "continuous", aspectRatio |-> t.ratio]
                  ELSE [exposureMode |-> "manual", focusMode |-> "manual",
                        aspectRatio |-> t.ratio]]_vars

ColorTemperatureDroppedOnSwitch ==
    /\ last = [op |-> "initProbeOk", arg |-> "B"]
    /\ used.changes >= 1
    /\ selectedAspectRatio = "16:9"
    /\ settings = [exposureMode |-> "manual", focusMode |-> "manual",
                   aspectRatio |-> "16:9"]


\* C34: while a capability descriptor is held, exposureMode and focusMode
\* in the settings are each either absent or one of the modes the descriptor
\* lists for the device.
ModesWithinCapabilities ==
    capabilities # NullCaps
      => \A m \in {"exposureMode", "focusMode"} :
           Has(settings, m) => Includes(capabilities, m, settings[m])


\* C35: the session never rests in Acquiring: while the loading flag is set
\* on a mounted component some continuation, timer or handler pass that can
\* clear it is still in flight.
LoadingNeverRests ==
    (isLoading /\ ~unmounted) => InFlight > 0


\* C36: the capability descriptor held is never one fetched for a device
\* other than the selected one: whenever a descriptor is held it is the one
\* getCameraCapabilities returns for the selected device.
DescriptorOfSelectedDevice ==
    capabilities # NullCaps
      => /\ selectedCamera # ""
         /\ capabilities = getCameraCapabilities(selectedCamera)

====
